---- MODULE Spec2Model ----
(***************************************************************************)
(* Model of NFLDataFetcher.extract_clean_game_data and                     *)
(* NFLDataFetcher.extract_box_score_data (src/nflgamedata/main.py).        *)
(*                                                                         *)
(* JSON documents are tagged values: a string, an integer, null, a mapping *)
(* (a function from string keys to values) or a list (a sequence of        *)
(* values).  The Python operations the two methods apply to them (.get,    *)
(* `in`, truthiness, [0], iteration, slicing, len, int(), .lower()) are    *)
(* operators that yield Err where Python raises.  Each method is modelled  *)
(* statement by statement over an accumulator that carries the record      *)
(* under construction and whether an exception has been raised inside the  *)
(* try block.                                                              *)
(***************************************************************************)
EXTENDS Integers, Sequences, FiniteSets, TLC

VARIABLES
    summary_doc,    \* the game_summary argument of both methods
    event_doc,      \* the event_data argument of extract_clean_game_data
    clean,          \* the last call of extract_clean_game_data, if any
    box             \* the last call of extract_box_score_data, if any

vars == <<summary_doc, event_doc, clean, box>>

(***************************************************************************)
(* JSON values                                                             *)
(***************************************************************************)
JStr(s) == [t |-> "str", s |-> s]
JInt(i) == [t |-> "int", i |-> i]
JNull == [t |-> "null"]
JMap(m) == [t |-> "map", m |-> m]
JList(q) == [t |-> "seq", q |-> q]
\* The outcome of an expression that raises.
Err == [t |-> "err"]

EmptyFn == <<>>
EmptyMap == JMap(EmptyFn)
EmptyList == JList(<<>>)
EmptyStr == JStr("")
Zero == JInt(0)

\* m with key k bound to v (dict item assignment on the underlying function).
\* d[k] = v that keeps the value of a key already set.
FnSetKeepFirst(m, k, v) ==
    [x \in (DOMAIN m) \cup {k} |-> IF x \in DOMAIN m THEN m[x] ELSE v]

FnSet(m, k, v) == [x \in (DOMAIN m) \cup {k} |-> IF x = k THEN v ELSE m[x]]

(***************************************************************************)
(* Python operations on JSON values                                        *)
(***************************************************************************)
\* d.get(k, default): AttributeError unless d is a dict.
Get(d, k, default) ==
    IF d.t # "map" \/ default = Err THEN Err
    ELSE IF k \in DOMAIN d.m THEN d.m[k] ELSE default

\* bool(v), as `if v:` and `and` evaluate it.
Truthy(v) ==
    CASE v.t = "null" -> FALSE
      [] v.t = "int" -> v.i # 0
      [] v.t = "str" -> v.s # ""
      [] v.t = "map" -> DOMAIN v.m # {}
      [] v.t = "seq" -> Len(v.q) > 0

\* `k in d` raises TypeError for None and for an int.
InRaises(d) == d.t \in {"null", "int", "err"}

\* `k in d` for a dict (key membership) or a list (element membership).
Contains(d, k) ==
    CASE d.t = "map" -> k \in DOMAIN d.m
      [] d.t = "seq" -> \E i \in 1..Len(d.q) : d.q[i] = JStr(k)

\* d[k]: KeyError for a dict without k, TypeError for a list indexed by a
\* string, for None and for an int.
Subscript(d, k) == IF d.t = "map" /\ k \in DOMAIN d.m THEN d.m[k] ELSE Err

\* v[0] for a truthy v: the first element of a list; KeyError for a dict
\* (its keys are strings), TypeError for an int.
Index0(v) ==
    CASE v.t = "seq" -> IF Len(v.q) > 0 THEN v.q[1] ELSE Err
      [] v.t \in {"map", "int", "null", "err"} -> Err

\* The elements `for x in v` visits: a list's elements, a dict's keys;
\* TypeError for None and for an int (not Iterable).
RECURSIVE KeysAsList(_)
KeysAsList(S) ==
    IF S = {} THEN <<>>
    ELSE LET k == CHOOSE x \in S : TRUE
         IN <<JStr(k)>> \o KeysAsList(S \ {k})

Iterable(v) == v.t \in {"seq", "map", "str"}
Iter(v) ==
    CASE v.t = "seq" -> v.q
      [] v.t = "map" -> KeysAsList(DOMAIN v.m)
      [] v.t = "str" /\ v.s = "" -> <<>>

\* len(v): TypeError for None and for an int.
HasLen(v) == v.t \in {"seq", "map", "str"}
PyLen(v) ==
    CASE v.t = "seq" -> Len(v.q)
      [] v.t = "map" -> Cardinality(DOMAIN v.m)
      [] v.t = "str" /\ v.s = "" -> 0

\* The decimal literals among the strings of the model, with their values.
DecimalValue ==
    ("27" :> 27) @@ ("20" :> 20) @@ ("3" :> 3) @@ ("-1" :> -1) @@ ("0" :> 0)

\* int(v): the int itself, the value of a decimal string; ValueError for any
\* other string, TypeError for None, a dict or a list.
IntOf(v) ==
    CASE v.t = "int" -> v
      [] v.t = "str" -> IF v.s \in DOMAIN DecimalValue
                        THEN JInt(DecimalValue[v.s]) ELSE Err
      [] v.t \in {"null", "map", "seq", "err"} -> Err

\* str.lower() on the category names of the model.
LowerTable ==
    ("Passing" :> "passing") @@ ("passing" :> "passing")
    @@ ("RUSHING" :> "rushing") @@ ("rushing" :> "rushing")
    @@ ("Receiving" :> "receiving") @@ ("receiving" :> "receiving")
    @@ ("Defensive" :> "defensive") @@ ("defensive" :> "defensive")
    @@ ("Kicking" :> "kicking") @@ ("" :> "")

\* v.lower(): AttributeError unless v is a str.
Lower(v) == IF v.t = "str" THEN JStr(LowerTable[v.s]) ELSE Err

\* The key a value is stored under in a dict: the string itself; TypeError
\* (unhashable) for a dict or a list.  The documents of the model carry no
\* int or null where the methods take a key.
Hashable(v) ==
    CASE v.t = "str" -> TRUE
      [] v.t \in {"map", "seq", "err"} -> FALSE
KeyOf(v) == v.s

\* list.insert(0, v) in place of list.append(v).
Prepend_(l, v) == JList(<<v>> \o l.q)

\* list.append(v)
Append_(l, v) == JList(Append(l.q, v))

(***************************************************************************)
(* Execution inside a try block                                            *)
(*   d    the record under construction (clean_data / box_score)           *)
(*   exc  an exception has been raised: the rest of the block is skipped    *)
(*   at   the section of the method that raised                            *)
(***************************************************************************)
Start(d) == [d |-> d, exc |-> FALSE, at |-> "none"]

Raise(a, step) == IF a.exc THEN a ELSE [a EXCEPT !.exc = TRUE, !.at = step]

\* record[key] = v
Assign(a, step, key, v) ==
    IF a.exc THEN a
    ELSE IF v = Err THEN Raise(a, step)
    ELSE [a EXCEPT !.d[key] = v]

\* record[field][k] = v
AssignIn(a, step, field, k, v) ==
    IF a.exc THEN a
    ELSE IF k = Err \/ v = Err THEN Raise(a, step)
    ELSE IF ~Hashable(k) THEN Raise(a, step)
    ELSE [a EXCEPT !.d[field] = JMap(FnSet(@.m, KeyOf(k), v))]

\* The body of each for loop of the two methods is an operator over the
\* accumulator and the loop variable; Body dispatches on the loop's name.
\* ctx carries the enclosing loops' variables the body reads.
RECURSIVE Body(_, _, _, _)

RECURSIVE Fold(_, _, _, _)
Fold(loop, ctx, a, s) ==
    IF s = <<>> THEN a
    ELSE Fold(loop, ctx, Body(loop, ctx, a, Head(s)), Tail(s))

\* for x in v: <loop body>
ForEach(loop, ctx, a, step, v) ==
    IF a.exc THEN a
    ELSE IF v = Err THEN Raise(a, step)
    ELSE IF ~Iterable(v) THEN Raise(a, step)
    ELSE Fold(loop, ctx, a, Iter(v))

(***************************************************************************)
(* extract_clean_game_data                                                 *)
(***************************************************************************)
CleanDefaults ==
    [game_id |-> EmptyStr, date |-> EmptyStr, status |-> EmptyStr,
     venue |-> EmptyStr, attendance |-> Zero, teams |-> EmptyMap,
     final_score |-> EmptyMap, team_statistics |-> EmptyMap,
     scoring_plays |-> EmptyList, player_statistics |-> EmptyMap]

\* x.get("status", {}).get("type", {}).get("description", "")
StatusOf(x) ==
    Get(Get(Get(x, "status", EmptyMap), "type", EmptyMap), "description", EmptyStr)

\* x.get("venue", {}).get("fullName", "")
VenueOf(x) == Get(Get(x, "venue", EmptyMap), "fullName", EmptyStr)

\* x.get("team", {}).get("abbreviation", "")
AbbrOf(x) == Get(Get(x, "team", EmptyMap), "abbreviation", EmptyStr)

\* The dict literal of a teams entry; record is the value of its third item.
TeamEntry(competitor, record) ==
    LET name == Get(Get(competitor, "team", EmptyMap), "displayName", EmptyStr)
        home_away == Get(competitor, "homeAway", EmptyStr)
    IN IF name = Err \/ home_away = Err \/ record = Err THEN Err
       ELSE JMap([name |-> name, home_away |-> home_away, record |-> record])

\* competitor.get("records", [{}])[0].get("summary", "")
\*     if competitor.get("records") else ""
EventRecord(competitor) ==
    LET records == Get(competitor, "records", JNull)
    IN IF records = Err THEN Err
       ELSE IF Truthy(records)
       THEN Get(Index0(Get(competitor, "records", JList(<<EmptyMap>>))),
                "summary", EmptyStr)
       ELSE EmptyStr

\* EventCompetitor with the score converted before teams is assigned.
EventCompetitorScoreFirst(a, competitor) ==
    LET team_abbr == AbbrOf(competitor)
        score == IntOf(Get(competitor, "score", Zero))
    IN IF score = Err THEN Raise(a, "event")
       ELSE AssignIn(AssignIn(a, "event", "teams", team_abbr,
                              TeamEntry(competitor, EventRecord(competitor))),
                     "event", "final_score", team_abbr, score)

\* The body of the loop over the event's competitors.
EventCompetitor(a, competitor) ==
    LET team_abbr == AbbrOf(competitor)
        a1 == AssignIn(a, "event", "teams", team_abbr,
                       TeamEntry(competitor, EventRecord(competitor)))
    IN AssignIn(a1, "event", "final_score", team_abbr,
                IntOf(Get(competitor, "score", Zero)))

\* HeaderCompetitor with the score converted before teams is assigned.
HeaderCompetitorScoreFirst(a, competitor) ==
    LET team_abbr == AbbrOf(competitor)
        score == IntOf(Get(competitor, "score", Zero))
    IN IF score = Err THEN Raise(a, "header")
       ELSE AssignIn(AssignIn(a, "header", "teams", team_abbr,
                              TeamEntry(competitor, EmptyStr)),
                     "header", "final_score", team_abbr, score)

\* The body of the loop over the header's competitors.
HeaderCompetitor(a, competitor) ==
    LET team_abbr == AbbrOf(competitor)
        a1 == AssignIn(a, "header", "teams", team_abbr,
                       TeamEntry(competitor, EmptyStr))
    IN AssignIn(a1, "header", "final_score", team_abbr,
                IntOf(Get(competitor, "score", Zero)))

\* if event_data: ...
EventBlock(a, event_data) ==
    IF a.exc \/ ~Truthy(event_data) THEN a
    ELSE LET a1 == Assign(a, "event", "game_id", Get(event_data, "id", EmptyStr))
             a2 == Assign(a1, "event", "date", Get(event_data, "date", EmptyStr))
             a3 == Assign(a2, "event", "status", StatusOf(event_data))
         IN IF a3.exc THEN a3
            ELSE IF ~(Contains(event_data, "competitions")
                      /\ Truthy(Subscript(event_data, "competitions")))
            THEN a3
            ELSE LET competition == Index0(Subscript(event_data, "competitions"))
                     a4 == Assign(a3, "event", "venue", VenueOf(competition))
                     a5 == Assign(a4, "event", "attendance",
                                  Get(competition, "attendance", Zero))
                 IN IF a5.exc THEN a5
                    ELSE IF ~Contains(competition, "competitors") THEN a5
                    ELSE ForEach("event_competitors", JNull, a5, "event",
                                 Subscript(competition, "competitors"))

\* UseHeader without `and not event_data`: the header is read whenever present.
UseHeaderAlways(game_summary, event_data) == Contains(game_summary, "header")

\* UseHeader with `event_data is None` in place of `not event_data`.
UseHeaderIfNone(game_summary, event_data) ==
    Contains(game_summary, "header") /\ event_data = JNull

\* "header" in game_summary and not event_data
UseHeader(game_summary, event_data) ==
    Contains(game_summary, "header") /\ ~Truthy(event_data)

\* if "header" in game_summary and not event_data: ...
HeaderBlock(a, game_summary, event_data) ==
    IF a.exc THEN a
    ELSE IF InRaises(game_summary) THEN Raise(a, "header")
    ELSE IF ~UseHeader(game_summary, event_data) THEN a
    ELSE LET header == Subscript(game_summary, "header")
         IN IF InRaises(header) THEN Raise(a, "header")
            ELSE IF ~Contains(header, "competitions") THEN a
            ELSE IF Subscript(header, "competitions") = Err THEN Raise(a, "header")
            ELSE IF ~Truthy(Subscript(header, "competitions")) THEN a
            ELSE LET competition == Index0(Subscript(header, "competitions"))
                     a1 == Assign(a, "header", "date",
                                  Get(competition, "date", EmptyStr))
                     a2 == Assign(a1, "header", "status", StatusOf(competition))
                     a3 == Assign(a2, "header", "venue", VenueOf(competition))
                     a4 == Assign(a3, "header", "attendance",
                                  Get(competition, "attendance", Zero))
                 IN IF a4.exc THEN a4
                    ELSE IF ~Contains(competition, "competitors") THEN a4
                    ELSE ForEach("header_competitors", JNull, a4, "header",
                                 Subscript(competition, "competitors"))

\* CleanStat with the label taken from name before label.
CleanStatNameFirst(stats, stat) ==
    IF stats = Err THEN Err
    ELSE LET stat_label == Get(stat, "name", Get(stat, "label", EmptyStr))
             stat_value == Get(stat, "displayValue", Get(stat, "value", EmptyStr))
         IN IF stat_label = Err \/ stat_value = Err THEN Err
            ELSE IF ~Hashable(stat_label) THEN Err
            ELSE JMap(FnSet(stats.m, KeyOf(stat_label), stat_value))

\* stats[stat_label] = stat_value, on the local dict stats (Err once raised).
CleanStat(stats, stat) ==
    IF stats = Err THEN Err
    ELSE LET stat_label == Get(stat, "label", Get(stat, "name", EmptyStr))
             stat_value == Get(stat, "displayValue", Get(stat, "value", EmptyStr))
         IN IF stat_label = Err \/ stat_value = Err THEN Err
            ELSE IF ~Hashable(stat_label) THEN Err
            ELSE JMap(FnSet(stats.m, KeyOf(stat_label), stat_value))

\* The body of the loop over boxscore.teams.
CleanTeamStats(a, team_data) ==
    LET team_abbr == AbbrOf(team_data)
        statistics == Get(team_data, "statistics", EmptyList)
    IN IF a.exc THEN a
       ELSE IF team_abbr = Err THEN Raise(a, "team_statistics")
       ELSE IF ~Truthy(team_abbr) THEN a
       ELSE IF statistics = Err \/ ~Iterable(statistics)
       THEN Raise(a, "team_statistics")
       ELSE AssignIn(a, "team_statistics", "team_statistics", team_abbr,
                     Fold("clean_stats", JNull, EmptyMap, Iter(statistics)))

\* if "boxscore" in game_summary and "teams" in game_summary["boxscore"]: ...
TeamStatsBlock(a, game_summary) ==
    IF a.exc THEN a
    ELSE IF ~Contains(game_summary, "boxscore") THEN a
    ELSE LET boxscore == Subscript(game_summary, "boxscore")
         IN IF InRaises(boxscore) THEN Raise(a, "team_statistics")
            ELSE IF ~Contains(boxscore, "teams") THEN a
            ELSE ForEach("clean_teams", JNull, a, "team_statistics",
                         Subscript(boxscore, "teams"))

\* The dict literal of a scoring play, under the two score keys of the method.
PlayEntry(play, awayKey, homeKey) ==
    LET quarter == Get(Get(play, "period", EmptyMap), "number", Zero)
        time == Get(Get(play, "clock", EmptyMap), "displayValue", EmptyStr)
        team == AbbrOf(play)
        description == Get(play, "text", EmptyStr)
        away == Get(play, "awayScore", Zero)
        home == Get(play, "homeScore", Zero)
    IN IF Err \in {quarter, time, team, description, away, home} THEN Err
       ELSE JMap(FnSet(FnSet([quarter |-> quarter, time |-> time, team |-> team,
                              description |-> description],
                             awayKey, away), homeKey, home))

\* The body of the loop over scoringPlays.
CleanPlay(a, play) ==
    LET clean_play == PlayEntry(play, "away_score", "home_score")
    IN IF a.exc THEN a
       ELSE IF clean_play = Err THEN Raise(a, "scoring_plays")
       ELSE [a EXCEPT !.d.scoring_plays = Append_(@, clean_play)]

\* if "scoringPlays" in game_summary: ...
CleanPlaysBlock(a, game_summary) ==
    IF a.exc THEN a
    ELSE IF ~Contains(game_summary, "scoringPlays") THEN a
    ELSE ForEach("clean_plays", JNull, a, "scoring_plays",
                 Subscript(game_summary, "scoringPlays"))

\* key_categories with kicking added.
KeyCategoriesWithKicking ==
    {"passing", "rushing", "receiving", "defensive", "kicking"}

\* key_categories
KeyCategories == {"passing", "rushing", "receiving", "defensive"}
\* The slice bound off by one: [:4].
TopPlayersOffByOne == 3 + 1

\* [:3], the number of athletes kept per category
TopPlayers == 3

\* passing_labels with YDS and AVG exchanged.
PassingLabelsSwapped ==
    <<"C/ATT", "AVG", "YDS", "TD", "INT", "SACKS", "QBR", "RTG">>

PassingLabels == <<"C/ATT", "YDS", "AVG", "TD", "INT", "SACKS", "QBR", "RTG">>
RushingLabels == <<"CAR", "YDS", "AVG", "TD", "LONG">>
ReceivingLabels == <<"REC", "YDS", "AVG", "TD", "LONG", "TGTS">>

Min(m, n) == IF m < n THEN m ELSE n

\* v[:n]: a list's first n elements; TypeError for None, an int or a dict.
Slice(v, n) ==
    CASE v.t = "seq" -> JList(SubSeq(v.q, 1, Min(n, Len(v.q))))
      [] v.t \in {"null", "int", "map", "err"} -> Err

\* The dict that `for k, x in zip(keys, vals): d[k] = x` builds from the empty
\* dict, keys being strings: a later duplicate key overwrites an earlier one.
ZipDict(keys, vals) ==
    LET n == Min(Len(keys), Len(vals))
    IN JMap([k \in {keys[i] : i \in 1..n} |->
               vals[CHOOSE i \in 1..n :
                       keys[i] = k /\ \A j \in 1..n : keys[j] = k => j <= i]])

\* The strings of a list of str values.
Strings(q) == [i \in 1..Len(q) |-> q[i].s]

\* stat_labels: labels if truthy, else keys if truthy, else [].
StatLabels(stat_category) ==
    IF Truthy(Get(stat_category, "labels", JNull))
    THEN Subscript(stat_category, "labels")
    ELSE IF Truthy(Get(stat_category, "keys", JNull))
    THEN Subscript(stat_category, "keys")
    ELSE EmptyList

\* The fallback: for i, value in enumerate(stats_array[:len(labels)]):
\*                   player_stats[labels[i]] = value
FallbackStats(labels, stats_array) ==
    LET cut == Slice(stats_array, Len(labels))
    IN IF cut = Err THEN Err ELSE ZipDict(labels, cut.q)

\* The generic fallback: player_stats[f"stat_{i+1}"] = value
GenericStats(stats_array) ==
    IF ~Iterable(stats_array) THEN Err
    ELSE LET vals == Iter(stats_array)
         IN ZipDict([i \in 1..Len(vals) |-> "stat_" \o ToString(i)], vals)

\* player_stats of one athlete; lower is category_name.lower().
PlayerStats(lower, stat_labels, stats_array) ==
    IF Truthy(stat_labels) /\ ~(HasLen(stat_labels) /\ HasLen(stats_array))
    THEN Err
    ELSE IF Truthy(stat_labels) /\ PyLen(stat_labels) = PyLen(stats_array)
    THEN IF \E i \in 1..Len(Iter(stat_labels)) : ~Hashable(Iter(stat_labels)[i])
         THEN Err
         ELSE ZipDict(Strings(Iter(stat_labels)), Iter(stats_array))
    ELSE IF lower = "passing" THEN FallbackStats(PassingLabels, stats_array)
    ELSE IF lower = "rushing" THEN FallbackStats(RushingLabels, stats_array)
    ELSE IF lower = "receiving" THEN FallbackStats(ReceivingLabels, stats_array)
    ELSE GenericStats(stats_array)

\* x.get("athlete", {}).get("displayName", "")
AthleteName(athlete) ==
    Get(Get(athlete, "athlete", EmptyMap), "displayName", EmptyStr)

\* x.get("athlete", {}).get("position", {}).get("abbreviation", "")
AthletePosition(athlete) ==
    Get(Get(Get(athlete, "athlete", EmptyMap), "position", EmptyMap),
        "abbreviation", EmptyStr)

\* The player dict of one athlete.
CleanPlayer(lower, stat_labels, athlete) ==
    LET stats_array == Get(athlete, "stats", EmptyList)
        player_stats == IF stats_array = Err THEN Err
                        ELSE PlayerStats(lower, stat_labels, stats_array)
        name == AthleteName(athlete)
        position == AthletePosition(athlete)
    IN IF player_stats = Err \/ name = Err \/ position = Err THEN Err
       ELSE JMap([name |-> name, position |-> position,
                  stats |-> IF Truthy(player_stats) THEN player_stats
                            ELSE stats_array])

\* The body of the loop over a category's first athletes: players.append(player)
\* on the local list players (Err once raised).
CleanAthlete(ctx, players, athlete) ==
    IF players = Err THEN Err
    ELSE LET player == CleanPlayer(ctx.lower, ctx.stat_labels, athlete)
         IN IF player = Err THEN Err ELSE Append_(players, player)

\* The body of the loop over a team's statistic categories.
CleanCategory(team_abbr, a, stat_category) ==
    LET category_name == Get(stat_category, "name", EmptyStr)
        lower == Lower(category_name)
    IN IF a.exc THEN a
       ELSE IF lower = Err THEN Raise(a, "player_statistics")
       ELSE IF lower.s \notin KeyCategories THEN a
       ELSE LET stat_labels == StatLabels(stat_category)
                athletes == Slice(Get(stat_category, "athletes", EmptyList),
                                  TopPlayers)
                players == IF athletes = Err THEN Err
                           ELSE Fold("clean_athletes",
                                     [lower |-> lower.s, stat_labels |-> stat_labels],
                                     EmptyList, athletes.q)
            IN IF players = Err THEN Raise(a, "player_statistics")
               ELSE IF ~Truthy(players) THEN a
               ELSE [a EXCEPT !.d.player_statistics.m[KeyOf(team_abbr)] =
                         JMap(FnSet(@.m, KeyOf(category_name), players))]

\* The body of the loop over boxscore.players.
CleanPlayerTeam(a, team_players) ==
    LET team_abbr == AbbrOf(team_players)
    IN IF a.exc THEN a
       ELSE IF team_abbr = Err THEN Raise(a, "player_statistics")
       ELSE IF ~Truthy(team_abbr) THEN a
       ELSE ForEach("clean_categories", team_abbr,
                    AssignIn(a, "player_statistics", "player_statistics",
                             team_abbr, EmptyMap),
                    "player_statistics",
                    Get(team_players, "statistics", EmptyList))

\* if "boxscore" in game_summary and "players" in game_summary["boxscore"]: ...
CleanPlayersBlock(a, game_summary) ==
    IF a.exc THEN a
    ELSE IF ~Contains(game_summary, "boxscore") THEN a
    ELSE LET boxscore == Subscript(game_summary, "boxscore")
         IN IF InRaises(boxscore) THEN Raise(a, "player_statistics")
            ELSE IF ~Contains(boxscore, "players") THEN a
            ELSE ForEach("clean_player_teams", JNull, a, "player_statistics",
                         Subscript(boxscore, "players"))

\* The try block of extract_clean_game_data, run on clean_data's defaults.
CleanTry(game_summary, event_data) ==
    CleanPlayersBlock(
        CleanPlaysBlock(
            TeamStatsBlock(
                HeaderBlock(EventBlock(Start(CleanDefaults), event_data),
                            game_summary, event_data),
                game_summary),
            game_summary),
        game_summary)

\* Caught without the except clause: the exception leaves the method.
Uncaught(a) ==
    [state |-> IF a.exc THEN "raised" ELSE "returned", ret |-> JMap(a.d),
     raised |-> a.exc, printed |-> FALSE, at |-> a.at]

\* Caught with the return statement inside the try block: after an exception
\* the method falls off its end and returns None.
ReturnInsideTry(a) ==
    [state |-> "returned", ret |-> IF a.exc THEN JNull ELSE JMap(a.d),
     raised |-> FALSE, printed |-> a.exc, at |-> a.at]

\* except Exception as e: print(...), then return: the call returns the record
\* as the try block left it, whether or not it raised.
\*   raised   an exception leaves the method
\*   printed  the diagnostic message was written
\*   at       the section whose statement raised ("none" if none did)
Caught(a) ==
    [state |-> "returned", ret |-> JMap(a.d), raised |-> FALSE,
     printed |-> a.exc, at |-> a.at]

extract_clean_game_data(summary, event) == Caught(CleanTry(summary, event))

(***************************************************************************)
(* extract_box_score_data                                                  *)
(***************************************************************************)
BoxDefaults ==
    [game_info |-> EmptyMap, team_stats |-> EmptyMap, scoring |-> EmptyList,
     player_stats |-> EmptyMap]

\* The dict literal assigned to box_score["game_info"].
GameInfo(competition) ==
    LET date == Get(competition, "date", EmptyStr)
        status == StatusOf(competition)
        venue == VenueOf(competition)
        attendance == Get(competition, "attendance", Zero)
    IN IF Err \in {date, status, venue, attendance} THEN Err
       ELSE JMap([date |-> date, status |-> status, venue |-> venue,
                  attendance |-> attendance])

\* BoxCompetitor with every entry given an empty statistics mapping at once.
BoxCompetitorWithStatistics(a, team) ==
    LET team_name == AbbrOf(team)
        score == Get(team, "score", Zero)
        home_away == Get(team, "homeAway", EmptyStr)
        record == Get(team, "record", EmptyList)
    IN AssignIn(a, "header", "team_stats", team_name,
                IF Err \in {score, home_away, record} THEN Err
                ELSE JMap([score |-> score, home_away |-> home_away,
                           record |-> record, statistics |-> EmptyMap]))

\* The body of the loop over the header's competitors.
BoxCompetitor(a, team) ==
    LET team_name == AbbrOf(team)
        score == Get(team, "score", Zero)
        home_away == Get(team, "homeAway", EmptyStr)
        record == Get(team, "record", EmptyList)
    IN AssignIn(a, "header", "team_stats", team_name,
                IF Err \in {score, home_away, record} THEN Err
                ELSE JMap([score |-> score, home_away |-> home_away,
                           record |-> record]))

\* if "header" in game_summary: ...
BoxHeaderBlock(a, game_summary) ==
    IF a.exc THEN a
    ELSE IF InRaises(game_summary) THEN Raise(a, "header")
    ELSE IF ~Contains(game_summary, "header") THEN a
    ELSE LET header == Subscript(game_summary, "header")
         IN IF InRaises(header) THEN Raise(a, "header")
            ELSE IF ~Contains(header, "competitions") THEN a
            ELSE IF Subscript(header, "competitions") = Err THEN Raise(a, "header")
            ELSE IF ~Truthy(Subscript(header, "competitions")) THEN a
            ELSE LET competition == Index0(Subscript(header, "competitions"))
                     a1 == Assign(a, "header", "game_info", GameInfo(competition))
                 IN IF a1.exc THEN a1
                    ELSE IF ~Contains(competition, "competitors") THEN a1
                    ELSE ForEach("box_competitors", JNull, a1, "header",
                                 Subscript(competition, "competitors"))

\* stats_dict[stat_label] = stat_value, on the local dict (Err once raised).
BoxStat(stats_dict, stat) ==
    IF stats_dict = Err THEN Err
    ELSE LET stat_name == Get(stat, "name", EmptyStr)
             stat_value == Get(stat, "displayValue", Get(stat, "value", EmptyStr))
             stat_label == Get(stat, "label", stat_name)
         IN IF stat_label = Err \/ stat_value = Err THEN Err
            ELSE IF ~Hashable(stat_label) THEN Err
            ELSE JMap(FnSet(stats_dict.m, KeyOf(stat_label), stat_value))

\* enumerate(v): the pairs <<idx, element>>.
Enumerate(q) == [i \in 1..Len(q) |-> [idx |-> i - 1, item |-> q[i]]]

\* The body of the loop over enumerate(boxscore["teams"]).
BoxTeam(a, entry) ==
    LET team_data == entry.item
        team_stats == Get(team_data, "statistics", EmptyList)
        team_name == Get(Get(team_data, "team", EmptyMap), "abbreviation",
                         JStr("Team" \o ToString(entry.idx + 1)))
    IN IF a.exc THEN a
       ELSE IF team_stats = Err \/ team_name = Err THEN Raise(a, "team_stats")
       ELSE IF ~Hashable(team_name) THEN Raise(a, "team_stats")
       ELSE LET a1 == IF KeyOf(team_name) \notin DOMAIN a.d.team_stats.m
                      THEN AssignIn(a, "team_stats", "team_stats", team_name,
                                    EmptyMap)
                      ELSE a
                stats_dict == IF ~Iterable(team_stats) THEN Err
                              ELSE Fold("box_stats", JNull, EmptyMap,
                                        Iter(team_stats))
            IN IF stats_dict = Err THEN Raise(a1, "team_stats")
               ELSE [a1 EXCEPT !.d.team_stats.m[KeyOf(team_name)] =
                         JMap(FnSet(@.m, "statistics", stats_dict))]

\* The body of the loop over a category's athletes.
BoxAthlete(ctx, a, athlete) ==
    LET name == AthleteName(athlete)
        position == AthletePosition(athlete)
        stats == Get(athlete, "stats", EmptyList)
    IN IF a.exc THEN a
       ELSE IF Err \in {name, position, stats} THEN Raise(a, "player_stats")
       ELSE [a EXCEPT !.d.player_stats.m[ctx.team_name].m[ctx.category_name] =
                 Append_(@, JMap([name |-> name, position |-> position,
                                  stats |-> stats]))]

\* The body of the loop over a team's statistic categories.
BoxCategory(team_name, a, stat_category) ==
    LET category_name == Get(stat_category, "name", EmptyStr)
    IN IF a.exc THEN a
       ELSE IF category_name = Err THEN Raise(a, "player_stats")
       ELSE IF ~Hashable(category_name) THEN Raise(a, "player_stats")
       ELSE ForEach("box_athletes",
                    [team_name |-> KeyOf(team_name),
                     category_name |-> KeyOf(category_name)],
                    [a EXCEPT !.d.player_stats.m[KeyOf(team_name)] =
                         JMap(FnSet(@.m, KeyOf(category_name), EmptyList))],
                    "player_stats",
                    Get(stat_category, "athletes", EmptyList))

\* The body of the loop over boxscore["players"].
BoxPlayerTeam(a, team_players) ==
    LET team_name == AbbrOf(team_players)
    IN ForEach("box_categories", team_name,
               AssignIn(a, "player_stats", "player_stats", team_name, EmptyMap),
               "player_stats", Get(team_players, "statistics", EmptyList))

\* if "boxscore" in game_summary: ...
BoxBoxscoreBlock(a, game_summary) ==
    IF a.exc THEN a
    ELSE IF ~Contains(game_summary, "boxscore") THEN a
    ELSE LET boxscore == Subscript(game_summary, "boxscore")
             teams == Subscript(boxscore, "teams")
             a1 == IF InRaises(boxscore) THEN Raise(a, "team_stats")
                   ELSE IF ~Contains(boxscore, "teams") THEN a
                   ELSE IF teams = Err THEN Raise(a, "team_stats")
                   ELSE IF ~Iterable(teams) THEN Raise(a, "team_stats")
                   ELSE Fold("box_teams", JNull, a, Enumerate(Iter(teams)))
         IN IF a1.exc THEN a1
            ELSE IF ~Contains(boxscore, "players") THEN a1
            ELSE ForEach("box_player_teams", JNull, a1, "player_stats",
                         Subscript(boxscore, "players"))

\* The body of the loop over scoringPlays.
BoxPlay(a, play) ==
    LET scoring_play == PlayEntry(play, "score_away", "score_home")
    IN IF a.exc THEN a
       ELSE IF scoring_play = Err THEN Raise(a, "scoring")
       ELSE [a EXCEPT !.d.scoring = Append_(@, scoring_play)]

\* if "scoringPlays" in game_summary: ...
BoxPlaysBlock(a, game_summary) ==
    IF a.exc THEN a
    ELSE IF ~Contains(game_summary, "scoringPlays") THEN a
    ELSE ForEach("box_plays", JNull, a, "scoring",
                 Subscript(game_summary, "scoringPlays"))

\* The try block of extract_box_score_data, run on box_score's defaults.
BoxTry(game_summary) ==
    BoxPlaysBlock(
        BoxBoxscoreBlock(BoxHeaderBlock(Start(BoxDefaults), game_summary),
                         game_summary),
        game_summary)

extract_box_score_data(summary) == Caught(BoxTry(summary))

\* The loop bodies, by loop.
Body(loop, ctx, a, x) ==
    CASE loop = "event_competitors" -> EventCompetitor(a, x)
      [] loop = "header_competitors" -> HeaderCompetitor(a, x)
      [] loop = "clean_teams" -> CleanTeamStats(a, x)
      [] loop = "clean_stats" -> CleanStat(a, x)
      [] loop = "clean_plays" -> CleanPlay(a, x)
      [] loop = "clean_player_teams" -> CleanPlayerTeam(a, x)
      [] loop = "clean_categories" -> CleanCategory(ctx, a, x)
      [] loop = "clean_athletes" -> CleanAthlete(ctx, a, x)
      [] loop = "box_competitors" -> BoxCompetitor(a, x)
      [] loop = "box_teams" -> BoxTeam(a, x)
      [] loop = "box_stats" -> BoxStat(a, x)
      [] loop = "box_player_teams" -> BoxPlayerTeam(a, x)
      [] loop = "box_categories" -> BoxCategory(ctx, a, x)
      [] loop = "box_athletes" -> BoxAthlete(ctx, a, x)
      [] loop = "box_plays" -> BoxPlay(a, x)

(***************************************************************************)
(* The documents the methods are called with.  Each family varies one part *)
(* of the provider's schema over every combination of its options and      *)
(* keeps the other parts to a few fixed values.                            *)
(***************************************************************************)
MaxCompetitors == 2
MaxTeams == 2
MaxAthletes == 4
MaxPlays == 2

\* A key that the document does not carry.
Absent == [t |-> "absent"]
Opt(k, v) == IF v = Absent THEN EmptyFn ELSE (k :> v)
SeqsUpTo(S, n) == UNION {[1..k -> S] : k \in 0..n}
Team(abbr, name) ==
    JMap([abbreviation |-> JStr(abbr), displayName |-> JStr(name)])
StatusDoc(description) ==
    JMap([type |-> JMap([description |-> JStr(description)])])

\* competitors[] entries (event: lines 124-131; header: 144-151, 270-276)
HomeKC ==
    JMap([team |-> Team("KC", "Chiefs"), homeAway |-> JStr("home"),
          score |-> JStr("27"),
          records |-> JList(<<JMap([summary |-> JStr("1-0")])>>),
          record |-> JList(<<JMap([summary |-> JStr("1-0")])>>)])
AwayBAL ==
    JMap([team |-> Team("BAL", "Ravens"), homeAway |-> JStr("away"),
          score |-> JInt(20), records |-> EmptyList])
AgainKC ==
    JMap([team |-> Team("KC", "Kansas City"), homeAway |-> JStr("away"),
          score |-> JStr("3")])
BadScoreBAL ==
    JMap([team |-> Team("BAL", "Ravens"), homeAway |-> JStr("away"),
          score |-> JStr("N/A")])
BadScoreKC ==
    JMap([team |-> Team("KC", "Kansas City"), homeAway |-> JStr("away"),
          score |-> JStr("N/A")])
CompetitorPool == {HomeKC, AwayBAL, AgainKC, BadScoreBAL, BadScoreKC, EmptyMap}
CompetitorOptions ==
    {Absent, JNull}
    \cup {JList(q) : q \in SeqsUpTo(CompetitorPool, MaxCompetitors)}

\* A competition substructure (competitions[0]).
Competition(date, status, venue, attendance, competitors) ==
    JMap([date |-> JStr(date), status |-> status]
         @@ Opt("venue", venue) @@ Opt("attendance", attendance)
         @@ Opt("competitors", competitors))
Venue(name) == JMap([fullName |-> JStr(name)])

\* event_data
Event(status, competitions) ==
    JMap([id |-> JStr("401"), date |-> JStr("event-date"), status |-> status]
         @@ Opt("competitions", competitions))
EventAttendance == {Absent, JInt(70000), JInt(-1), JStr("N/A")}
EventCompetition(attendance, competitors) ==
    Competition("competition-date", StatusDoc("Scheduled"), Venue("EventVenue"),
                attendance, competitors)
FullEvent ==
    Event(StatusDoc("Final"),
          JList(<<EventCompetition(JInt(70000), JList(<<HomeKC, AwayBAL>>))>>))
OddEvents ==
    {JNull, EmptyMap, JList(<<JInt(1)>>),
     Event(StatusDoc("Final"), Absent),
     Event(StatusDoc("Final"), EmptyList),
     Event(StatusDoc("Final"), JInt(1)),
     Event(JStr("Final"), JList(<<EventCompetition(JInt(70000), Absent)>>)),
     Event(StatusDoc("Final"),
           JList(<<Competition("competition-date", StatusDoc("Scheduled"),
                               Absent, JInt(70000), JList(<<HomeKC>>))>>)),
     Event(StatusDoc("Final"),
           JList(<<Competition("competition-date", StatusDoc("Scheduled"),
                               JStr("EventVenue"), JInt(70000),
                               JList(<<HomeKC>>))>>))}
Events ==
    OddEvents
    \cup {Event(StatusDoc("Final"), JList(<<EventCompetition(att, comps)>>)) :
            att \in EventAttendance, comps \in CompetitorOptions}

\* summary.header
HeaderAttendance == {Absent, JInt(65000), JInt(-5), JStr("TBD")}
HeaderCompetition(attendance, competitors) ==
    Competition("header-date", StatusDoc("In Progress"), Venue("HeaderVenue"),
                attendance, competitors)
Header(competition) == JMap([competitions |-> JList(<<competition>>)])
FullHeader == Header(HeaderCompetition(JInt(65000), JList(<<AwayBAL, HomeKC>>)))
BadScoreHeader ==
    Header(HeaderCompetition(JInt(65000), JList(<<HomeKC, BadScoreBAL>>)))
OddHeaders ==
    {JNull, EmptyMap, JMap([competitions |-> EmptyList]),
     JMap([competitions |-> JInt(1)]),
     Header(Competition("header-date", JStr("Final"), Venue("HeaderVenue"),
                        JInt(65000), JList(<<HomeKC>>))),
     Header(Competition("header-date", StatusDoc("Final"), Absent,
                        Absent, Absent))}
Headers ==
    OddHeaders
    \cup {Header(HeaderCompetition(att, comps)) :
            att \in HeaderAttendance, comps \in CompetitorOptions}

\* summary.boxscore.teams[].statistics[] entries
Stat(label, name, displayValue, value) ==
    JMap(Opt("label", label) @@ Opt("name", name)
         @@ Opt("displayValue", displayValue) @@ Opt("value", value))
TotalYards == Stat(JStr("Total Yards"), JStr("totalYards"), JStr("350"), JInt(350))
Turnovers == Stat(Absent, JStr("turnovers"), Absent, JInt(2))
TotalYardsAgain == Stat(JStr("Total Yards"), Absent, JStr("400"), Absent)

\* summary.boxscore.teams[] entries
TeamStats(team, statistics) ==
    JMap(Opt("team", team) @@ Opt("statistics", statistics))
TeamPool ==
    {TeamStats(Team("KC", "Chiefs"), JList(<<TotalYards, Turnovers>>)),
     TeamStats(Team("BAL", "Ravens"),
               JList(<<TotalYards, TotalYardsAgain, EmptyMap>>)),
     TeamStats(Team("NYJ", "Jets"), Absent),
     TeamStats(Absent, JList(<<Turnovers>>)),
     TeamStats(Team("", ""), JList(<<TotalYards>>)),
     TeamStats(Team("KC", "Chiefs"), JList(<<Turnovers, JNull>>))}
TeamOptions ==
    {Absent, JNull} \cup {JList(q) : q \in SeqsUpTo(TeamPool, MaxTeams)}

\* summary.boxscore.players[].statistics[].athletes[] entries
StatValues ==
    <<JStr("v1"), JStr("v2"), JStr("v3"), JStr("v4"), JStr("v5"), JStr("v6"),
      JStr("v7"), JStr("v8"), JStr("v9")>>
StatLengths == {0, 2, 6, 9}
AthleteNames == <<"P1", "P2", "P3", "P4", "P5", "P6">>
Athlete(i, len) ==
    JMap([athlete |-> JMap([displayName |-> JStr(AthleteNames[i]),
                            position |-> JMap([abbreviation |-> JStr("QB")])]),
          stats |-> JList(SubSeq(StatValues, 1, len))])
Athletes(n, len) == JList([i \in 1..n |-> Athlete(i, len)])

\* summary.boxscore.players[].statistics[] entries
Category(name, labels, keys, athletes) ==
    JMap(Opt("name", name) @@ Opt("labels", labels) @@ Opt("keys", keys)
         @@ Opt("athletes", athletes))
CategoryNames ==
    {Absent, JStr("Passing"), JStr("RUSHING"), JStr("receiving"),
     JStr("Defensive"), JStr("Kicking")}
LabelOptions ==
    {Absent, EmptyList, JList(<<JStr("C/ATT"), JStr("YDS")>>),
     JList(<<JStr("YDS"), JStr("YDS")>>)}
KeyOptions == {Absent, JList(<<JStr("completions"), JStr("yards")>>)}
Categories ==
    {Category(name, labels, keys, Athletes(n, len)) :
        name \in CategoryNames, labels \in LabelOptions, keys \in KeyOptions,
        n \in 0..MaxAthletes, len \in StatLengths}
OddCategories ==
    {Category(JList(<<JStr("Passing")>>), Absent, Absent, Athletes(1, 2)),
     Category(JStr("Passing"), Absent, Absent, JNull),
     Category(JStr("Passing"), Absent, Absent, Absent),
     Category(JStr("Defensive"), Absent, Absent,
              JList(<<Athlete(1, 2), JMap([stats |-> JNull])>>)),
     Category(JStr("Kicking"), Absent, Absent,
              JList(<<Athlete(1, 2), JMap([athlete |-> JStr("P2")])>>))}
NamedCategory(name) ==
    Category(name, JList(<<JStr("C/ATT"), JStr("YDS")>>), Absent, Athletes(1, 2))

\* summary.boxscore.players[] entries
PlayerTeam(team, statistics) ==
    JMap(Opt("team", team) @@ Opt("statistics", statistics))
PlayerOptions ==
    {Absent, JNull, EmptyList}
    \cup {JList(<<PlayerTeam(Team("KC", "Chiefs"), JList(<<c>>))>>) :
            c \in Categories \cup OddCategories}
    \cup {JList(<<PlayerTeam(Team("KC", "Chiefs"),
                             JList(<<NamedCategory(n1), NamedCategory(n2)>>)),
                  PlayerTeam(team, JList(<<NamedCategory(n2)>>))>>) :
            n1 \in CategoryNames, n2 \in CategoryNames,
            team \in {Absent, Team("BAL", "Ravens"), Team("KC", "Chiefs")}}
SameNameCategories ==
    {JList(<<PlayerTeam(Team("KC", "Chiefs"),
                        JList(<<Category(JStr("Passing"), Absent, Absent,
                                         Athletes(n1, 2)),
                                Category(JStr("Passing"), Absent, Absent,
                                         Athletes(n2, 2))>>))>>) :
        n1 \in 0..MaxAthletes, n2 \in 0..MaxAthletes}
FullPlayers ==
    JList(<<PlayerTeam(Team("KC", "Chiefs"),
                       JList(<<NamedCategory(JStr("Passing")),
                               NamedCategory(JStr("Kicking"))>>))>>)

\* summary.boxscore
Boxscore(teams, players) ==
    JMap(Opt("teams", teams) @@ Opt("players", players))
FullBoxscore ==
    Boxscore(JList(<<TeamStats(Team("KC", "Chiefs"), JList(<<TotalYards>>))>>),
             FullPlayers)

\* summary.scoringPlays[] entries
Touchdown ==
    JMap([period |-> JMap([number |-> JInt(1)]),
          clock |-> JMap([displayValue |-> JStr("10:21")]),
          team |-> Team("KC", "Chiefs"), text |-> JStr("TD pass"),
          awayScore |-> JInt(0), homeScore |-> JInt(7)])
FieldGoal ==
    JMap([period |-> JMap([number |-> JInt(2)]), text |-> JStr("Field goal"),
          awayScore |-> JInt(3), homeScore |-> JInt(7)])
BadPeriod == JMap([period |-> JStr("Q1"), text |-> JStr("Safety")])
PlayPool == {Touchdown, FieldGoal, BadPeriod, EmptyMap}
PlayOptions ==
    {Absent, JNull} \cup {JList(q) : q \in SeqsUpTo(PlayPool, MaxPlays)}
FullPlays == JList(<<Touchdown, FieldGoal>>)

\* game_summary
Summary(header, boxscore, scoringPlays) ==
    JMap(Opt("header", header) @@ Opt("boxscore", boxscore)
         @@ Opt("scoringPlays", scoringPlays))
FullSummary == Summary(FullHeader, FullBoxscore, FullPlays)

\* The pairs <<game_summary, event_data>> the methods are called with.
EventFamily ==
    {<<s, e>> : s \in {FullSummary, Summary(Absent, Absent, FullPlays)},
                e \in Events}
HeaderFamily ==
    {<<Summary(h, b, FullPlays), e>> :
        h \in Headers, b \in {Absent, FullBoxscore}, e \in {JNull, EmptyMap}}
TeamsFamily ==
    {<<Summary(h, Boxscore(ts, Absent), FullPlays), JNull>> :
        h \in {Absent, FullHeader}, ts \in TeamOptions}
PlayersFamily ==
    {<<Summary(FullHeader, Boxscore(Absent, ps), FullPlays), JNull>> :
        ps \in PlayerOptions \cup SameNameCategories}
PlaysFamily ==
    {<<Summary(h, b, ps), e>> :
        h \in {Absent, FullHeader, BadScoreHeader},
        b \in {Absent, JNull, FullBoxscore, Boxscore(Absent, JNull)},
        ps \in PlayOptions,
        e \in {JNull, FullEvent, Event(JStr("Final"), Absent)}}
NoSummaryFamily ==
    {<<s, e>> : s \in {JNull, EmptyMap}, e \in {JNull, EmptyMap, FullEvent}}
Inputs ==
    EventFamily \cup HeaderFamily \cup TeamsFamily \cup PlayersFamily
    \cup PlaysFamily \cup NoSummaryFamily

(***************************************************************************)
(* The state machine: the arguments are fixed, and each method may be      *)
(* called on them any number of times, in any order.                       *)
(***************************************************************************)
Idle == [state |-> "idle"]

Init ==
    /\ \E in \in Inputs : summary_doc = in[1] /\ event_doc = in[2]
    /\ clean = Idle
    /\ box = Idle

\* ExtractCleanGameData with scoring_plays kept by the instance across calls
\* instead of being created by each call.
ExtractCleanGameDataSharedRecord ==
    /\ clean' =
         (IF clean = Idle
          THEN extract_clean_game_data(summary_doc, event_doc)
          ELSE [extract_clean_game_data(summary_doc, event_doc)
                  EXCEPT !.ret.m.scoring_plays.q =
                             clean.ret.m.scoring_plays.q \o @])
    /\ UNCHANGED <<summary_doc, event_doc, box>>

ExtractCleanGameData ==
    /\ clean' = extract_clean_game_data(summary_doc, event_doc)
    /\ UNCHANGED <<summary_doc, event_doc, box>>

ExtractBoxScoreData ==
    /\ box' = extract_box_score_data(summary_doc)
    /\ UNCHANGED <<summary_doc, event_doc, clean>>

Next == ExtractCleanGameData \/ ExtractBoxScoreData

Spec == Init /\ [][Next]_vars

(***************************************************************************)
(* Properties                                                              *)
(***************************************************************************)
CleanReturned == clean.state = "returned"
BoxReturned == box.state = "returned"
CleanRecord == clean.ret.m
BoxRecord == box.ret.m

\* C1: whatever the summary and the event, a call of extract_clean_game_data
\* or of extract_box_score_data ends by returning a record; no exception
\* leaves either method.
C1_NeverRaises ==
    /\ clean.state # "idle" =>
         clean.state = "returned" /\ ~clean.raised /\ clean.ret.t = "map"
    /\ box.state # "idle" =>
         box.state = "returned" /\ ~box.raised /\ box.ret.t = "map"

\* Both methods have absorbed an exception: the clean call one raised by a
\* non-numeric competitor score, the box call one raised by a null boxscore.
C1_Witness ==
    /\ CleanReturned /\ clean.printed /\ clean.at = "header"
    /\ BoxReturned /\ box.printed /\ box.at = "team_stats"
    /\ summary_doc = Summary(BadScoreHeader, JNull, FullPlays)

CleanFields ==
    {"game_id", "date", "status", "venue", "attendance", "teams", "final_score",
     "team_statistics", "scoring_plays", "player_statistics"}

\* C2: the record extract_clean_game_data returns has exactly the ten declared
\* fields, whether the try block ran to its end or an exception cut it short.
C2_AllFieldsPresent ==
    CleanReturned => clean.ret.t = "map" /\ DOMAIN CleanRecord = CleanFields

\* A call cut short inside the event block, after game_id and date were set.
C2_Witness ==
    /\ CleanReturned /\ clean.printed /\ clean.at = "event"
    /\ CleanRecord.game_id = JStr("401")
    /\ DOMAIN CleanRecord = CleanFields

\* C3: the attendance field of the record extract_clean_game_data returns is
\* an integer >= 0, also when the competition's attendance is negative or is
\* not an integer.
C3_AttendanceNonNegativeInt ==
    CleanReturned =>
        CleanRecord.attendance.t = "int" /\ CleanRecord.attendance.i >= 0

\* C4: for an empty or absent summary and no event, both methods return the
\* all-default record; the box record's game_info has date, status and venue
\* empty and attendance 0.
C4_AllDefaultRecords ==
    (summary_doc \in {JNull, EmptyMap} /\ event_doc = JNull) =>
        /\ CleanReturned => clean.ret = JMap(CleanDefaults)
        /\ BoxReturned =>
             /\ BoxRecord.game_info =
                  JMap([date |-> EmptyStr, status |-> EmptyStr,
                        venue |-> EmptyStr, attendance |-> Zero])
             /\ BoxRecord.team_stats = EmptyMap
             /\ BoxRecord.scoring = EmptyList
             /\ BoxRecord.player_stats = EmptyMap

\* The summary without its header key.
RemoveHeader(summary) ==
    IF summary.t = "map"
    THEN JMap([k \in DOMAIN summary.m \ {"header"} |-> summary.m[k]])
    ELSE summary

\* The fields of step 1: identity/status/venue/score source selection.
SourceBlock(record) ==
    [k \in {"date", "status", "venue", "attendance", "teams", "final_score"} |->
        record[k]]

\* The first element of the competitions list of doc, if it has one.
FirstCompetition(doc) ==
    IF /\ doc.t = "map"
       /\ "competitions" \in DOMAIN doc.m
       /\ doc.m["competitions"].t = "seq"
       /\ Len(doc.m["competitions"].q) > 0
    THEN doc.m["competitions"].q[1]
    ELSE Absent

\* The venue name a competition carries, "" if it carries none.
VenueName(competition) ==
    IF /\ competition.t = "map"
       /\ "venue" \in DOMAIN competition.m
       /\ competition.m["venue"].t = "map"
       /\ "fullName" \in DOMAIN competition.m["venue"].m
    THEN competition.m["venue"].m["fullName"]
    ELSE EmptyStr

\* The source block is what the same call returns for the summary without
\* its header: nothing in it comes from the header.
NothingFromHeader ==
    SourceBlock(CleanRecord) =
        SourceBlock(extract_clean_game_data(RemoveHeader(summary_doc),
                                            event_doc).ret.m)

\* C5 as stated: whenever an event is supplied, the source block comes only
\* from the event, and the venue is the event's first competition's venue.
C5_EventSuppliedOnlyEvent ==
    (event_doc # JNull /\ CleanReturned) =>
        /\ NothingFromHeader
        /\ CleanRecord.venue = VenueName(FirstCompetition(event_doc))

\* C5, amended: whenever a non-empty event is supplied, nothing of the source
\* block comes from the header; the venue is the event's first competition's
\* venue when the event block ran to its end, and that venue or empty when an
\* exception cut the event block short.
C5_NonEmptyEventOnlyEvent ==
    (Truthy(event_doc) /\ CleanReturned) =>
        /\ NothingFromHeader
        /\ clean.at # "event" =>
             CleanRecord.venue = VenueName(FirstCompetition(event_doc))
        /\ CleanRecord.venue \in {EmptyStr, VenueName(FirstCompetition(event_doc))}

\* An event without competitions, a header with venue, attendance and
\* competitors: the record has none of them.
C5_Witness ==
    /\ CleanReturned
    /\ event_doc = Event(StatusDoc("Final"), Absent)
    /\ summary_doc = FullSummary
    /\ CleanRecord.venue = EmptyStr
    /\ CleanRecord.attendance = Zero
    /\ CleanRecord.teams = EmptyMap
    /\ VenueName(FirstCompetition(summary_doc.m["header"])) = JStr("HeaderVenue")

NoBoxscoreKey == summary_doc.t = "map" /\ "boxscore" \notin DOMAIN summary_doc.m

\* The competitors of the header's first competition ([] if none).
HeaderCompetitors ==
    LET competition == IF summary_doc.t = "map" /\ "header" \in DOMAIN summary_doc.m
                       THEN FirstCompetition(summary_doc.m["header"])
                       ELSE Absent
    IN IF /\ competition.t = "map"
          /\ "competitors" \in DOMAIN competition.m
          /\ competition.m["competitors"].t = "seq"
       THEN competition.m["competitors"].q
       ELSE <<>>

\* The abbreviation a competitor or team entry carries, "" if it carries none.
AbbrName(entry) ==
    IF /\ entry.t = "map"
       /\ "team" \in DOMAIN entry.m
       /\ entry.m["team"].t = "map"
       /\ "abbreviation" \in DOMAIN entry.m["team"].m
    THEN entry.m["team"].m["abbreviation"].s
    ELSE ""

SrcPlayerTeams ==
    IF /\ summary_doc.t = "map"
       /\ "boxscore" \in DOMAIN summary_doc.m
       /\ summary_doc.m["boxscore"].t = "map"
       /\ "players" \in DOMAIN summary_doc.m["boxscore"].m
       /\ summary_doc.m["boxscore"].m["players"].t = "seq"
    THEN summary_doc.m["boxscore"].m["players"].q
    ELSE <<>>

\* The list entry carries under key, <<>> unless it is a list.
ListAt(entry, key) ==
    IF entry.t = "map" /\ key \in DOMAIN entry.m /\ entry.m[key].t = "seq"
    THEN entry.m[key].q
    ELSE <<>>

\* The string entry carries under key, "" if it carries none.
StringAt(entry, key) ==
    IF entry.t = "map" /\ key \in DOMAIN entry.m /\ entry.m[key].t = "str"
    THEN entry.m[key].s
    ELSE ""

\* Entry i is the last entry of SrcPlayerTeams with its abbreviation.
LastOfAbbr(i) ==
    \A j \in (i + 1)..Len(SrcPlayerTeams) :
        AbbrName(SrcPlayerTeams[j]) # AbbrName(SrcPlayerTeams[i])

\* The lowercase forms the claims name.
QualifyingLower == {"passing", "rushing", "receiving", "defensive"}
Qualifies(name) == LowerTable[name] \in QualifyingLower

\* The keys of a record's per-team player mapping for team abbr.
CategoryKeys(players, abbr) ==
    IF abbr \in DOMAIN players.m THEN DOMAIN players.m[abbr].m ELSE {}

\* The clean record's categories are qualifying ones only.
OnlyQualifyingKeys ==
    \A t \in DOMAIN CleanRecord.player_statistics.m :
        \A k \in CategoryKeys(CleanRecord.player_statistics, t) : Qualifies(k)

\* C7 as stated: for every team entry, player_statistics[team] has only
\* qualifying category names as keys, and player_stats[team] has a key for
\* every category name of the entry.
C7_FilteredAndUnfiltered ==
    /\ CleanReturned => OnlyQualifyingKeys
    /\ BoxReturned =>
         \A i \in 1..Len(SrcPlayerTeams) :
            \A k \in 1..Len(ListAt(SrcPlayerTeams[i], "statistics")) :
                StringAt(ListAt(SrcPlayerTeams[i], "statistics")[k], "name")
                    \in CategoryKeys(BoxRecord.player_stats,
                                     AbbrName(SrcPlayerTeams[i]))

\* C7, amended: player_statistics[team] has only qualifying category names
\* as keys; when extract_box_score_data completes without internal failure,
\* player_stats[team] has a key for every category name of the last team
\* entry with that abbreviation.
C7_FilteredAndUnfilteredLastEntry ==
    /\ CleanReturned => OnlyQualifyingKeys
    /\ (BoxReturned /\ ~box.printed) =>
         \A i \in 1..Len(SrcPlayerTeams) :
            LastOfAbbr(i) =>
              \A k \in 1..Len(ListAt(SrcPlayerTeams[i], "statistics")) :
                StringAt(ListAt(SrcPlayerTeams[i], "statistics")[k], "name")
                    \in CategoryKeys(BoxRecord.player_stats,
                                     AbbrName(SrcPlayerTeams[i]))

\* Passing and Kicking in the source: the clean record keeps Passing only,
\* the box record both.
C7_Witness ==
    /\ CleanReturned /\ BoxReturned /\ ~box.printed
    /\ summary_doc = FullSummary
    /\ CategoryKeys(CleanRecord.player_statistics, "KC") = {"Passing"}
    /\ CategoryKeys(BoxRecord.player_stats, "KC") = {"Passing", "Kicking"}

\* The player entries a record holds for team abbr and category name.
PlayersOf(players, abbr, name) ==
    IF name \in CategoryKeys(players, abbr)
    THEN players.m[abbr].m[name].q
    ELSE <<>>

\* The categories of team entry i, and the athletes of its category k.
SrcCategories(i) == ListAt(SrcPlayerTeams[i], "statistics")
SrcAthletes(i, k) == ListAt(SrcCategories(i)[k], "athletes")
SrcCategoryName(i, k) == StringAt(SrcCategories(i)[k], "name")

\* The display name an athlete entry carries, "" if it carries none.
DisplayName(athlete) ==
    IF athlete.t = "map" /\ "athlete" \in DOMAIN athlete.m
    THEN JStr(StringAt(athlete.m["athlete"], "displayName"))
    ELSE EmptyStr

\* out holds exactly n entries, the i-th named as the i-th source athlete.
FirstOf(out, athletes, n) ==
    /\ Len(out) = n
    /\ \A i \in 1..n : out[i].m.name = DisplayName(athletes[i])

\* Category k of team entry i is the last of its name in the entry; the last
\* of its name among those with at least one athlete.
LastOfName(i, k) ==
    \A j \in (k + 1)..Len(SrcCategories(i)) :
        SrcCategoryName(i, j) # SrcCategoryName(i, k)
LastOfNameWithAthletes(i, k) ==
    \A j \in (k + 1)..Len(SrcCategories(i)) :
        SrcCategoryName(i, j) = SrcCategoryName(i, k) => SrcAthletes(i, j) = <<>>

NoneWithAthletes(i, k) ==
    \A j \in 1..Len(SrcCategories(i)) :
        SrcCategoryName(i, j) = SrcCategoryName(i, k) => SrcAthletes(i, j) = <<>>

FixedPassing == <<"C/ATT", "YDS", "AVG", "TD", "INT", "SACKS", "QBR", "RTG">>
FixedRushing == <<"CAR", "YDS", "AVG", "TD", "LONG">>
FixedReceiving == <<"REC", "YDS", "AVG", "TD", "LONG", "TGTS">>
FixedListOf(lower) ==
    CASE lower = "passing" -> FixedPassing
      [] lower = "rushing" -> FixedRushing
      [] lower = "receiving" -> FixedReceiving
GenericKey(i) == "stat_" \o ToString(i)

\* The label list of a category: labels if the key is present, else keys;
\* and as the truthiness tests select it: labels if non-empty, else keys.
LabelsIfPresent(cat) ==
    IF cat.t = "map" /\ "labels" \in DOMAIN cat.m
    THEN ListAt(cat, "labels") ELSE ListAt(cat, "keys")
LabelsIfNonEmpty(cat) ==
    IF ListAt(cat, "labels") # <<>>
    THEN ListAt(cat, "labels") ELSE ListAt(cat, "keys")

\* out is the mapping that pairs label i with value i, for every i; for
\* every i whose label does not occur again later in the list.
Paired(out, L, V) ==
    /\ out.t = "map"
    /\ DOMAIN out.m = {L[i].s : i \in 1..Len(L)}
    /\ \A i \in 1..Len(L) : out.m[L[i].s] = V[i]
PairedLastWins(out, L, V) ==
    /\ out.t = "map"
    /\ DOMAIN out.m = {L[i].s : i \in 1..Len(L)}
    /\ \A i \in 1..Len(L) :
          (\A j \in (i + 1)..Len(L) : L[j] # L[i]) => out.m[L[i].s] = V[i]

\* out keys value i by the i-th entry of the fixed list F, values beyond the
\* list dropped; out keys value i by stat_<i>.
Fixed(out, F, V) ==
    /\ out.t = "map"
    /\ DOMAIN out.m = {F[i] : i \in 1..Min(Len(F), Len(V))}
    /\ \A i \in 1..Min(Len(F), Len(V)) : out.m[F[i]] = V[i]
Generic(out, V) ==
    /\ out.t = "map"
    /\ DOMAIN out.m = {GenericKey(i) : i \in 1..Len(V)}
    /\ \A i \in 1..Len(V) : out.m[GenericKey(i)] = V[i]
FallbackOf(out, lower, V) ==
    IF lower \in {"passing", "rushing", "receiving"}
    THEN Fixed(out, FixedListOf(lower), V)
    ELSE Generic(out, V)

\* The stats of a player entry as C9 states them, for label list L.
StatsAsStated(out, lower, L, V) ==
    IF Len(L) = Len(V) THEN Paired(out, L, V) ELSE FallbackOf(out, lower, V)

\* The stats of a player entry: the raw (empty) list when there is no value;
\* the label pairing, the last of equal labels winning, when the label list
\* is non-empty and as long as the values; the fallback otherwise.
StatsAsBuilt(out, lower, L, V) ==
    IF V = <<>> THEN out = EmptyList
    ELSE IF L # <<>> /\ Len(L) = Len(V) THEN PairedLastWins(out, L, V)
    ELSE FallbackOf(out, lower, V)

\* Category k of team entry i is the one the clean record's entries for its
\* name are built from, the call having completed without internal failure.
CleanSourceOf(i, k) ==
    /\ CleanReturned /\ ~clean.printed
    /\ LastOfAbbr(i) /\ AbbrName(SrcPlayerTeams[i]) # ""
    /\ Qualifies(SrcCategoryName(i, k))
    /\ SrcAthletes(i, k) # <<>> /\ LastOfNameWithAthletes(i, k)
CleanPlayersOf(i, k) ==
    PlayersOf(CleanRecord.player_statistics, AbbrName(SrcPlayerTeams[i]),
              SrcCategoryName(i, k))

\* C9 as stated: the stats of every player entry of the clean record pair
\* label i with value i when the label list (labels if present, else keys) is
\* as long as the raw stats, and otherwise follow the fixed fallback list of
\* passing/rushing/receiving or the stat_<i> keys of defensive.
C9_StatsByLabelsIfPresent ==
    \A i \in 1..Len(SrcPlayerTeams) : \A k \in 1..Len(SrcCategories(i)) :
        CleanSourceOf(i, k) =>
            \A p \in 1..Len(CleanPlayersOf(i, k)) :
                ListAt(SrcAthletes(i, k)[p], "stats") # <<>> =>
                    StatsAsStated(CleanPlayersOf(i, k)[p].m.stats,
                                  LowerTable[SrcCategoryName(i, k)],
                                  LabelsIfPresent(SrcCategories(i)[k]),
                                  ListAt(SrcAthletes(i, k)[p], "stats"))

\* C9, amended: the label list is labels if non-empty, else keys; when it is
\* non-empty and as long as the raw stats the mapping pairs label i with
\* value i, the last of equal labels winning; otherwise the fallback applies;
\* an athlete with no raw stats gets the empty raw list as its stats.
C9_StatsByLabelsIfNonEmpty ==
    \A i \in 1..Len(SrcPlayerTeams) : \A k \in 1..Len(SrcCategories(i)) :
        CleanSourceOf(i, k) =>
            \A p \in 1..Len(CleanPlayersOf(i, k)) :
                StatsAsBuilt(CleanPlayersOf(i, k)[p].m.stats,
                             LowerTable[SrcCategoryName(i, k)],
                             LabelsIfNonEmpty(SrcCategories(i)[k]),
                             ListAt(SrcAthletes(i, k)[p], "stats"))

\* A passing category with two labels and nine raw values: the fallback list
\* keys the first eight values, the ninth is dropped.
C9_Witness ==
    /\ Len(SrcPlayerTeams) = 1 /\ Len(SrcCategories(1)) = 1
    /\ CleanSourceOf(1, 1)
    /\ SrcCategoryName(1, 1) = "Passing"
    /\ Len(LabelsIfNonEmpty(SrcCategories(1)[1])) = 2
    /\ Len(ListAt(SrcAthletes(1, 1)[1], "stats")) = 9
    /\ Len(CleanPlayersOf(1, 1)) >= 1
    /\ DOMAIN CleanPlayersOf(1, 1)[1].m.stats.m
         = {FixedPassing[n] : n \in 1..8}
    /\ CleanPlayersOf(1, 1)[1].m.stats.m["YDS"] = JStr("v2")
    /\ CleanPlayersOf(1, 1)[1].m.stats.m["RTG"] = JStr("v8")

\* The entries of summary.scoringPlays (none unless it is a list).
SrcPlays == ListAt(summary_doc, "scoringPlays")
PlayMappings == \A i \in 1..Len(SrcPlays) : SrcPlays[i].t = "map"

\* What a play carries under key, and under key2 of the mapping under key1.
FieldOr(play, key, default) ==
    IF key \in DOMAIN play.m THEN play.m[key] ELSE default
NestedOr(play, key1, key2, default) ==
    IF key1 \in DOMAIN play.m /\ play.m[key1].t = "map"
    THEN FieldOr(play.m[key1], key2, default)
    ELSE default

\* out is the copy of play, its scores under awayKey and homeKey.
CopiedFrom(out, play, awayKey, homeKey) ==
    /\ out.t = "map"
    /\ DOMAIN out.m
         = {"quarter", "time", "team", "description", awayKey, homeKey}
    /\ out.m["quarter"] = NestedOr(play, "period", "number", JInt(0))
    /\ out.m["time"] = NestedOr(play, "clock", "displayValue", EmptyStr)
    /\ out.m["team"] = NestedOr(play, "team", "abbreviation", EmptyStr)
    /\ out.m["description"] = FieldOr(play, "text", EmptyStr)
    /\ out.m[awayKey] = FieldOr(play, "awayScore", JInt(0))
    /\ out.m[homeKey] = FieldOr(play, "homeScore", JInt(0))

\* out copies the first Len(out) source plays, in source order.
PrefixCopied(out, awayKey, homeKey) ==
    /\ Len(out) <= Len(SrcPlays)
    /\ \A i \in 1..Len(out) : CopiedFrom(out[i], SrcPlays[i], awayKey, homeKey)
AllCopied(out, awayKey, homeKey) ==
    Len(out) = Len(SrcPlays) /\ PrefixCopied(out, awayKey, homeKey)

\* C10 as stated: when scoringPlays is a sequence of n play mappings, both
\* records hold exactly n scoring entries, the i-th copied from the i-th
\* source play, whatever the rest of the input contains.
C10_PlaysCopiedUnconditionally ==
    PlayMappings =>
        /\ CleanReturned =>
             AllCopied(CleanRecord.scoring_plays.q, "away_score", "home_score")
        /\ BoxReturned =>
             AllCopied(BoxRecord.scoring.q, "score_away", "score_home")

\* C10, amended: both records always hold a copy of a prefix of the source
\* plays, in source order; the copy is complete when no internal failure
\* occurred up to and including the scoring step (extract_clean_game_data:
\* event, header, team statistics, scoring plays; extract_box_score_data:
\* header, team stats, player stats, scoring).
C10_PlaysCopiedUntilFailure ==
    PlayMappings =>
        /\ CleanReturned =>
             /\ PrefixCopied(CleanRecord.scoring_plays.q,
                             "away_score", "home_score")
             /\ clean.at \notin {"event", "header", "team_statistics",
                                 "scoring_plays"} =>
                  AllCopied(CleanRecord.scoring_plays.q,
                            "away_score", "home_score")
        /\ BoxReturned =>
             /\ PrefixCopied(BoxRecord.scoring.q, "score_away", "score_home")
             /\ ~box.printed =>
                  AllCopied(BoxRecord.scoring.q, "score_away", "score_home")

\* Two plays and neither header nor boxscore: both records hold the two
\* plays in source order.
C10_Witness ==
    /\ CleanReturned /\ BoxReturned
    /\ summary_doc.t = "map" /\ DOMAIN summary_doc.m = {"scoringPlays"}
    /\ Len(SrcPlays) = 2 /\ PlayMappings
    /\ SrcPlays[1] # SrcPlays[2]
    /\ AllCopied(CleanRecord.scoring_plays.q, "away_score", "home_score")
    /\ AllCopied(BoxRecord.scoring.q, "score_away", "score_home")
    /\ CleanRecord.scoring_plays.q[1].m["description"] = JStr("TD pass")
    /\ BoxRecord.scoring.q[2].m["description"] = JStr("Field goal")

\* The competitors of the competition substructure the clean record's source
\* block reads: the event's first competition for a non-empty event, the
\* header's otherwise.
CompetitorsOf(competition) ==
    IF /\ competition.t = "map"
       /\ "competitors" \in DOMAIN competition.m
       /\ competition.m["competitors"].t = "seq"
    THEN competition.m["competitors"].q
    ELSE <<>>
FromEvent == Truthy(event_doc)
ChosenCompetitors ==
    IF FromEvent THEN CompetitorsOf(FirstCompetition(event_doc))
    ELSE HeaderCompetitors

\* The record summary a competitor's first records entry carries.
RecordSummary(competitor) ==
    IF /\ "records" \in DOMAIN competitor.m
       /\ competitor.m["records"].t = "seq"
       /\ Len(competitor.m["records"].q) > 0
    THEN FieldOr(competitor.m["records"].q[1], "summary", EmptyStr)
    ELSE EmptyStr

\* The teams entry and the score of one competitor.
TeamOf(competitor) ==
    JMap([name |-> NestedOr(competitor, "team", "displayName", EmptyStr),
          home_away |-> FieldOr(competitor, "homeAway", EmptyStr),
          record |-> IF FromEvent THEN RecordSummary(competitor) ELSE EmptyStr])
ScoreOf(competitor) == IntOf(FieldOr(competitor, "score", JInt(0)))

\* Competitor j is the last of ChosenCompetitors with its abbreviation, and
\* an earlier competitor carries the same abbreviation.
LaterOfTwo(j) ==
    /\ \E i \in 1..(j - 1) :
          AbbrName(ChosenCompetitors[i]) = AbbrName(ChosenCompetitors[j])
    /\ \A l \in (j + 1)..Len(ChosenCompetitors) :
          AbbrName(ChosenCompetitors[l]) # AbbrName(ChosenCompetitors[j])

\* teams and final_score hold, for the abbreviation of competitor j, the
\* entry and the score of competitor j.
HoldsCompetitor(j) ==
    LET abbr == AbbrName(ChosenCompetitors[j])
    IN /\ abbr \in DOMAIN CleanRecord.teams.m
       /\ CleanRecord.teams.m[abbr] = TeamOf(ChosenCompetitors[j])
       /\ abbr \in DOMAIN CleanRecord.final_score.m
       /\ CleanRecord.final_score.m[abbr] = ScoreOf(ChosenCompetitors[j])

\* C11 as stated: when two competitors of the chosen competition carry the
\* same abbreviation, teams and final_score hold for it the name, home_away,
\* record and score of the later competitor.
C11_LaterCompetitorWins ==
    CleanReturned =>
        \A j \in 1..Len(ChosenCompetitors) : LaterOfTwo(j) => HoldsCompetitor(j)

\* C11, amended: the later competitor wins in teams and final_score when the
\* source block completes without internal failure; in every case an entry of
\* teams or of final_score is that of some competitor carrying its
\* abbreviation.
C11_LaterCompetitorWinsUnlessFailure ==
    CleanReturned =>
        /\ clean.at \notin {"event", "header"} =>
             \A j \in 1..Len(ChosenCompetitors) :
                 LaterOfTwo(j) => HoldsCompetitor(j)
        /\ \A t \in DOMAIN CleanRecord.teams.m :
             \E j \in 1..Len(ChosenCompetitors) :
                 /\ AbbrName(ChosenCompetitors[j]) = t
                 /\ CleanRecord.teams.m[t] = TeamOf(ChosenCompetitors[j])
        /\ \A t \in DOMAIN CleanRecord.final_score.m :
             \E j \in 1..Len(ChosenCompetitors) :
                 /\ AbbrName(ChosenCompetitors[j]) = t
                 /\ CleanRecord.final_score.m[t] = ScoreOf(ChosenCompetitors[j])

\* The header lists KC twice, as Chiefs with 27 and then as Kansas City with
\* 3: the record holds the second.
C11_Witness ==
    /\ CleanReturned /\ ~clean.printed /\ ~FromEvent
    /\ ChosenCompetitors = <<HomeKC, AgainKC>>
    /\ LaterOfTwo(2) /\ HoldsCompetitor(2)
    /\ DOMAIN CleanRecord.teams.m = {"KC"}
    /\ CleanRecord.teams.m["KC"].m.name = JStr("Kansas City")
    /\ CleanRecord.final_score.m["KC"] = JInt(3)

\* The status description a document carries, "" if it carries none.
StatusName(doc) ==
    IF /\ doc.t = "map" /\ "status" \in DOMAIN doc.m
       /\ doc.m["status"].t = "map"
    THEN NestedOr(doc.m["status"], "type", "description", EmptyStr)
    ELSE EmptyStr

\* The competition the source block reads, and the identity, status, venue
\* and attendance fields it populates before the competitor loop.
ChosenCompetition ==
    IF FromEvent THEN FirstCompetition(event_doc)
    ELSE FirstCompetition(summary_doc.m["header"])
IdentityPopulated ==
    /\ CleanRecord.game_id =
         (IF FromEvent THEN FieldOr(event_doc, "id", EmptyStr) ELSE EmptyStr)
    /\ CleanRecord.date =
         (IF FromEvent THEN FieldOr(event_doc, "date", EmptyStr)
          ELSE FieldOr(ChosenCompetition, "date", EmptyStr))
    /\ CleanRecord.status =
         (IF FromEvent THEN StatusName(event_doc)
          ELSE StatusName(ChosenCompetition))
    /\ CleanRecord.venue = VenueName(ChosenCompetition)
    /\ CleanRecord.attendance = FieldOr(ChosenCompetition, "attendance", JInt(0))

\* The call failed converting the score of competitor k, the first whose
\* score is not numeric.
FailedAtCompetitor(k) ==
    /\ CleanReturned /\ clean.printed
    /\ k \in 1..Len(ChosenCompetitors)
    /\ ScoreOf(ChosenCompetitors[k]) = Err
    /\ \A j \in 1..(k - 1) : ScoreOf(ChosenCompetitors[j]) # Err

\* Competitor j is the last of competitors 1..n with its abbreviation.
LastUpTo(j, n) ==
    \A l \in (j + 1)..n :
        AbbrName(ChosenCompetitors[l]) # AbbrName(ChosenCompetitors[j])

\* The fields of the steps after the source block are at their defaults.
LaterStepsDefault ==
    /\ CleanRecord.team_statistics = EmptyMap
    /\ CleanRecord.scoring_plays = EmptyList
    /\ CleanRecord.player_statistics = EmptyMap

\* The summary without the parts the steps after the source block read.
OnlyHeader(summary) ==
    JMap([k \in DOMAIN summary.m \cap {"header"} |-> summary.m[k]])

C13_TeamStatsFourFields ==
    BoxReturned =>
        \A t \in DOMAIN BoxRecord.team_stats.m :
            DOMAIN BoxRecord.team_stats.m[t].m =
                {"score", "home_away", "record", "statistics"}

SrcTeams ==
    IF /\ summary_doc.t = "map"
       /\ "boxscore" \in DOMAIN summary_doc.m
    THEN ListAt(summary_doc.m["boxscore"], "teams")
    ELSE <<>>

\* The label and the value of one statistics entry.
StatLabel(stat) ==
    IF "label" \in DOMAIN stat.m THEN stat.m["label"]
    ELSE FieldOr(stat, "name", EmptyStr)
StatValue(stat) ==
    IF "displayValue" \in DOMAIN stat.m THEN stat.m["displayValue"]
    ELSE FieldOr(stat, "value", EmptyStr)

\* out is the label->value mapping of the statistics list L, a later
\* duplicate label overwriting an earlier one.
IsStatsOf(out, L) ==
    /\ out.t = "map"
    /\ DOMAIN out.m = {StatLabel(L[i]).s : i \in 1..Len(L)}
    /\ \A i \in 1..Len(L) :
          (\A j \in (i + 1)..Len(L) : StatLabel(L[j]) # StatLabel(L[i])) =>
              out.m[StatLabel(L[i]).s] = StatValue(L[i])

\* Entry i is the last entry of SrcTeams with its abbreviation.
LastTeamOfAbbr(i) ==
    \A j \in (i + 1)..Len(SrcTeams) : AbbrName(SrcTeams[j]) # AbbrName(SrcTeams[i])

\* For team entry i, both records hold the same statistics mapping, the
\* mapping of the last entry with its abbreviation.
SameStatistics(i) ==
    LET t == AbbrName(SrcTeams[i])
    IN /\ t \in DOMAIN CleanRecord.team_statistics.m
       /\ t \in DOMAIN BoxRecord.team_stats.m
       /\ "statistics" \in DOMAIN BoxRecord.team_stats.m[t].m
       /\ BoxRecord.team_stats.m[t].m["statistics"]
            = CleanRecord.team_statistics.m[t]
       /\ LastTeamOfAbbr(i) =>
            IsStatsOf(CleanRecord.team_statistics.m[t],
                      ListAt(SrcTeams[i], "statistics"))

C16_ScoreKeysWithinTeamKeys ==
    CleanReturned =>
        /\ DOMAIN CleanRecord.final_score.m \subseteq DOMAIN CleanRecord.teams.m
        /\ ~clean.printed =>
             DOMAIN CleanRecord.final_score.m = DOMAIN CleanRecord.teams.m
        /\ \A k \in 1..Len(ChosenCompetitors) :
             FailedAtCompetitor(k) =>
                /\ AbbrName(ChosenCompetitors[k]) \in DOMAIN CleanRecord.teams.m
                /\ AbbrName(ChosenCompetitors[k])
                       \in DOMAIN CleanRecord.final_score.m
                   <=> \E j \in 1..(k - 1) :
                          AbbrName(ChosenCompetitors[j])
                              = AbbrName(ChosenCompetitors[k])

\* The header lists KC with 27 and BAL with a non-numeric score: teams has
\* both, final_score only KC.
C16_Witness ==
    /\ ~FromEvent /\ ChosenCompetitors = <<HomeKC, BadScoreBAL>>
    /\ FailedAtCompetitor(2) /\ clean.at = "header"
    /\ DOMAIN CleanRecord.teams.m = {"KC", "BAL"}
    /\ DOMAIN CleanRecord.final_score.m = {"KC"}

\* The first competition of summary.header, Absent if there is none.
HeaderFirstCompetition ==
    IF summary_doc.t = "map" /\ "header" \in DOMAIN summary_doc.m
    THEN FirstCompetition(summary_doc.m["header"])
    ELSE Absent

\* date, status, venue and attendance are those of competition c.
TakenFrom(c) ==
    /\ CleanRecord.date = FieldOr(c, "date", EmptyStr)
    /\ CleanRecord.status = StatusName(c)
    /\ CleanRecord.venue = VenueName(c)
    /\ CleanRecord.attendance = FieldOr(c, "attendance", JInt(0))

\* Each of date, status, venue and attendance is that of c or its default.
TakenFromOrDefault(c) ==
    /\ CleanRecord.date \in {EmptyStr, FieldOr(c, "date", EmptyStr)}
    /\ CleanRecord.status \in {EmptyStr, StatusName(c)}
    /\ CleanRecord.venue \in {EmptyStr, VenueName(c)}
    /\ CleanRecord.attendance \in {JInt(0), FieldOr(c, "attendance", JInt(0))}

\* teams and final_score hold the header's competitors, the last of an
\* abbreviation winning.
TeamsFromHeader ==
    /\ DOMAIN CleanRecord.teams.m =
         {AbbrName(HeaderCompetitors[j]) : j \in 1..Len(HeaderCompetitors)}
    /\ \A j \in 1..Len(HeaderCompetitors) :
          LastUpTo(j, Len(HeaderCompetitors)) => HoldsCompetitor(j)

====
